---- MODULE Spec2Model ----
(***************************************************************************)
(* Model of src/app.py (the live variant, lines 247-612): the /query       *)
(* handler and the four pipeline functions it calls.                       *)
(*                                                                         *)
(* Texts whose characters matter (model output, view names, tenant names)  *)
(* are sequences of one-character strings.  The fixed messages of the      *)
(* handler are sequences of string segments.  The collaborators (Flask's   *)
(* JSON parser, the warehouse, the model) are the environment: what they   *)
(* return is chosen with \E from bounded sets.                             *)
(***************************************************************************)
EXTENDS Integers, Sequences, FiniteSets, TLC

VARIABLES
    pc,            \* position of the handler
    body,          \* the request body as received
    question,      \* handler local
    company_name,  \* handler local
    conn,          \* the warehouse connection: "none", "open" or "closed"
    schema,        \* handler local: the catalog
    content,       \* response.choices[0].message.content of the last model call
    sql,           \* handler local
    cursor,        \* what the cursor holds after the generated statement ran
    result,        \* handler local
    response,      \* what the handler returned
    trace,         \* the calls the handler made, in order
    caught,        \* number of times the except clause ran
    failure        \* the exception raised, if any, and the statement it left

vars == <<pc, body, question, company_name, conn, schema, content, sql,
          cursor, result, response, trace, caught, failure>>

(***************************************************************************)
(* Bounds                                                                  *)
(***************************************************************************)
MaxBody == 1     \* characters between the fences of a raw SQL text
MaxAnswer == 2   \* characters of a raw answer text
MaxCols == 2     \* columns of a result descriptor
MaxRows == 2     \* rows of a result set

(***************************************************************************)
(* Sequence helpers                                                        *)
(***************************************************************************)
Range(s) == {s[i] : i \in 1..Len(s)}

SeqsUpTo(S, n) == UNION {[1..k -> S] : k \in 0..n}

StartsWith(s, p) == Len(s) >= Len(p) /\ SubSeq(s, 1, Len(p)) = p

(***************************************************************************)
(* Python str methods                                                      *)
(***************************************************************************)
Whitespace == {" ", "\n", "\t"}

RECURSIVE lstrip(_)
lstrip(s) == IF s # <<>> /\ Head(s) \in Whitespace THEN lstrip(Tail(s)) ELSE s

RECURSIVE rstrip(_)
rstrip(s) ==
    IF s # <<>> /\ s[Len(s)] \in Whitespace
    THEN rstrip(SubSeq(s, 1, Len(s) - 1))
    ELSE s

\* str.strip(): leading and trailing whitespace removed
strip(s) == rstrip(lstrip(s))

\* str.replace(old, ""): every non-overlapping occurrence, leftmost first
RECURSIVE replace(_, _)
replace(s, old) ==
    IF s = <<>> THEN <<>>
    ELSE IF StartsWith(s, old)
         THEN replace(SubSeq(s, Len(old) + 1, Len(s)), old)
         ELSE <<Head(s)>> \o replace(Tail(s), old)

(***************************************************************************)
(* generate_sql: post-processing of the model's text                       *)
(***************************************************************************)
\* The grave accent U+0060 is written BT: the lexer accepts no such
\* character inside a string.
BT == "GRAVE"

FenceSql == <<BT, BT, BT, "s", "q", "l">>
Fence == <<BT, BT, BT>>
Backtick == <<BT>>

CleanSql(text) ==
    strip(replace(replace(replace(text, FenceSql), Fence), Backtick))

(***************************************************************************)
(* get_schema_info                                                         *)
(***************************************************************************)
\* T-SQL LIKE: % matches any run of characters, _ matches any one character
RECURSIVE Like(_, _)
Like(s, p) ==
    IF p = <<>> THEN s = <<>>
    ELSE IF Head(p) = "%"
         THEN \E k \in 0..Len(s) : Like(SubSeq(s, k + 1, Len(s)), Tail(p))
         ELSE IF Head(p) = "_"
              THEN s # <<>> /\ Like(Tail(s), Tail(p))
              ELSE s # <<>> /\ Head(s) = Head(p) /\ Like(Tail(s), Tail(p))

ViewPattern == <<"v", "w", "_", "%">>

\* the rows of INFORMATION_SCHEMA.VIEWS the first query returns
SelectViews(warehouse, tenant) ==
    {v \in warehouse : v[1] = tenant /\ Like(v[2], ViewPattern)}

\* the rows of INFORMATION_SCHEMA.COLUMNS for one view, by ordinal position
SelectColumns(schema_name, view) ==
    <<[name |-> "id", type |-> "int"], [name |-> "n", type |-> "varchar"]>>

\* f"{schema}.{view}"
CatalogKey(schema_name, view) == schema_name \o <<".">> \o view

get_schema_info(warehouse, tenant) ==
    LET views == SelectViews(warehouse, tenant)
        keys == {CatalogKey(v[1], v[2]) : v \in views}
    IN  [k \in keys |->
            LET v == CHOOSE w \in views : CatalogKey(w[1], w[2]) = k
            IN  SelectColumns(v[1], v[2])]

(***************************************************************************)
(* execute_sql                                                             *)
(***************************************************************************)
\* dict(zip(columns, row)): a later pair with the same key replaces an
\* earlier one
DictZip(columns, row) ==
    LET n == IF Len(columns) < Len(row) THEN Len(columns) ELSE Len(row)
        last(c) == CHOOSE i \in 1..n :
                       /\ columns[i] = c
                       /\ \A j \in 1..n : columns[j] = c => j <= i
    IN  [c \in {columns[i] : i \in 1..n} |-> row[last(c)]]

execute_sql(columns, rows) ==
    IF rows = <<>>
    THEN [type |-> "empty", data |-> <<>>]
    ELSE IF Len(columns) = 1 /\ Len(rows) = 1
         THEN [type |-> "scalar", data |-> rows[1][1]]
         ELSE [type |-> "table",
               columns |-> columns,
               data |-> [r \in 1..Len(rows) |-> DictZip(columns, rows[r])]]

(***************************************************************************)
(* The environment: request bodies, warehouse contents, model output       *)
(***************************************************************************)
\* Python's None, as a text no character sequence equals
NoneVal == <<"None">>

QuestionVals == {<<>>, <<"q">>}
TenantVals == {<<>>, <<"a">>, <<"b">>}

\* a JSON object with any of the two keys present
JsonObjects ==
    {[type |-> "object", question |-> q, company_name |-> c] :
        q \in QuestionVals \cup {NoneVal}, c \in TenantVals \cup {NoneVal}}

JsonValues ==
    JsonObjects \cup
    {[type |-> t, question |-> NoneVal, company_name |-> NoneVal] :
        t \in {"array", "string", "number", "null"}}

Bodies ==
    {[kind |-> k, value |-> [type |-> "null", question |-> NoneVal,
                             company_name |-> NoneVal]] :
        k \in {"absent", "malformed"}}
    \cup {[kind |-> "json", value |-> v] : v \in JsonValues}

WarehouseSchemas == {<<"a">>, <<"b">>}
WarehouseViewNames ==
    {<<"v", "w", "_", "M">>, <<"v", "w", "X", "M">>, <<"t", "M">>}
AllViews == WarehouseSchemas \X WarehouseViewNames

\* raw text of the SQL model call: an opening fence with or without a
\* language tag, a short body, a closing fence
OpeningFences ==
    {<<>>, Fence, FenceSql, <<BT, BT, BT, "S", "Q", "L">>}
ClosingFences == {<<>>, Fence}
BodyChars == {"x", " ", BT}
RawSqlTexts ==
    {o \o b \o c :
        o \in OpeningFences, b \in SeqsUpTo(BodyChars, MaxBody),
        c \in ClosingFences}

\* raw text of the answer model call
AnswerChars == {"a", " "}
RawAnswerTexts == SeqsUpTo(AnswerChars, MaxAnswer)

\* result descriptors and result sets of the generated statement
ColumnNames == {"id", "n"}
CellVals == {1, 2}
Descriptors == SeqsUpTo(ColumnNames, MaxCols) \ {<<>>}
RowsFor(columns) == SeqsUpTo([1..Len(columns) -> CellVals], MaxRows)

\* str(e) of the exceptions the collaborators raise
BadRequestText ==
    "400 Bad Request: The browser (or proxy) sent a request that this server could not understand."
AttributeErrorText == "object has no attribute 'get'"
CollaboratorErrors == {"timeout", "denied"}

(***************************************************************************)
(* query: the pieces of the handler                                        *)
(***************************************************************************)
\* request.get_json(force=True): raises BadRequest unless the body parses
JsonParses(b) == b.kind = "json"

\* data.get exists on a dict only
HasGet(v) == v.type = "object"

\* Python truthiness of None and of a string
Falsy(v) == v = NoneVal \/ v = <<>>

\* line 576
Invalid(q, c) == Falsy(q) \/ Falsy(c)

RequiredMessage == "Both 'question' and 'company_name' are required"

\* U+2019 RIGHT SINGLE QUOTATION MARK stands between "couldn" and "t"
CouldNotAnswerMessage ==
    <<"I couldn", "U+2019", "t find enough data to answer that question.">>

NoDataMessage == <<"No data was found for this question.">>

NoResponse == [status |-> 0, body |-> [none |-> TRUE]]

BadRequestResponse == [status |-> 400, body |-> [error |-> RequiredMessage]]

CouldNotAnswerResponse ==
    [status |-> 200, body |-> [answer |-> CouldNotAnswerMessage]]

NoDataResponse == [status |-> 200, body |-> [answer |-> NoDataMessage]]

\* the superseded variant of the handler (lines 232-235) returned these
AnswerResponseRaw(answer, sql_text, res) ==
    [status |-> 200, body |-> [sql |-> sql_text, result |-> res]]

\* line 604
AnswerResponse(answer, sql_text, res) ==
    [status |-> 200, body |-> [answer |-> answer]]

\* the except clause
ExceptResponse(e) == [status |-> 500, body |-> [error |-> e]]

\* a try block that ends before the answer is generated
InTryUntilAnswer(step) == step # "generate_human_answer"

\* the try block covers every statement of the handler
InTry(step) == TRUE

\* a handler without the empty-SQL check
SqlIsEmptyNever(sql_text) == FALSE

\* line 590
SqlIsEmpty(sql_text) == sql_text = <<>>

\* a handler without the empty-result check
ResultIsEmptyNever(res) == FALSE

\* line 597
ResultIsEmpty(res) == res.type = "empty"

(***************************************************************************)
(* query: the handler, one action per statement that calls out             *)
(***************************************************************************)
NoFailure == [step |-> "none", error |-> "none"]

NoResult == [type |-> "none", data |-> <<>>]

NoCursor == [description |-> <<>>, rows |-> <<>>]

Init ==
    /\ pc = "start"
    /\ body = [kind |-> "none", value |-> [type |-> "null",
                   question |-> NoneVal, company_name |-> NoneVal]]
    /\ question = NoneVal
    /\ company_name = NoneVal
    /\ conn = "none"
    /\ schema = <<>>
    /\ content = <<>>
    /\ sql = <<>>
    /\ cursor = NoCursor
    /\ result = NoResult
    /\ response = NoResponse
    /\ trace = <<>>
    /\ caught = 0
    /\ failure = NoFailure

\* an exception e leaves the statement `step`
Raise(step, e) ==
    /\ failure' = [step |-> step, error |-> e]
    /\ IF InTry(step)
       THEN /\ caught' = caught + 1
            /\ response' = ExceptResponse(e)
            /\ pc' = "responded"
       ELSE /\ caught' = caught
            /\ response' = NoResponse
            /\ pc' = "escaped"

\* line 571: the body is absent or is not JSON
GetJsonFails ==
    /\ pc = "start"
    /\ \E b \in Bodies :
        /\ ~JsonParses(b)
        /\ body' = b
    /\ Raise("get_json", BadRequestText)
    /\ UNCHANGED <<question, company_name, conn, schema, content, sql,
                   cursor, result, trace>>

\* line 573: the body is JSON but not an object
DataGetFails ==
    /\ pc = "start"
    /\ \E b \in Bodies :
        /\ JsonParses(b)
        /\ ~HasGet(b.value)
        /\ body' = b
    /\ Raise("data.get", AttributeErrorText)
    /\ UNCHANGED <<question, company_name, conn, schema, content, sql,
                   cursor, result, trace>>

\* lines 571-579: a field is missing or empty
RejectRequest ==
    /\ pc = "start"
    /\ \E b \in Bodies :
        /\ JsonParses(b)
        /\ HasGet(b.value)
        /\ Invalid(b.value.question, b.value.company_name)
        /\ body' = b
        /\ question' = b.value.question
        /\ company_name' = b.value.company_name
    /\ response' = BadRequestResponse
    /\ pc' = "responded"
    /\ UNCHANGED <<conn, schema, content, sql, cursor, result, trace,
                   caught, failure>>

\* lines 571-576: both fields are there
AcceptRequest ==
    /\ pc = "start"
    /\ \E b \in Bodies :
        /\ JsonParses(b)
        /\ HasGet(b.value)
        /\ ~Invalid(b.value.question, b.value.company_name)
        /\ body' = b
        /\ question' = b.value.question
        /\ company_name' = b.value.company_name
    /\ pc' = "validated"
    /\ UNCHANGED <<conn, schema, content, sql, cursor, result, response,
                   trace, caught, failure>>

\* line 581
Connect ==
    /\ pc = "validated"
    /\ trace' = Append(trace, "get_db_connection")
    /\ conn' = "open"
    /\ pc' = "connected"
    /\ UNCHANGED <<body, question, company_name, schema, content, sql,
                   cursor, result, response, caught, failure>>

ConnectFails ==
    /\ pc = "validated"
    /\ trace' = Append(trace, "get_db_connection")
    /\ \E e \in CollaboratorErrors : Raise("get_db_connection", e)
    /\ UNCHANGED <<body, question, company_name, conn, schema, content, sql,
                   cursor, result>>

\* line 582
OpenCursor ==
    /\ pc = "connected"
    /\ trace' = Append(trace, "cursor")
    /\ pc' = "cursor"
    /\ UNCHANGED <<body, question, company_name, conn, schema, content, sql,
                   cursor, result, response, caught, failure>>

OpenCursorFails ==
    /\ pc = "connected"
    /\ trace' = Append(trace, "cursor")
    /\ \E e \in CollaboratorErrors : Raise("cursor", e)
    /\ UNCHANGED <<body, question, company_name, conn, schema, content, sql,
                   cursor, result>>

\* line 584
GetSchemaInfo ==
    /\ pc = "cursor"
    /\ trace' = Append(trace, "get_schema_info")
    /\ \E warehouse \in SUBSET AllViews :
        schema' = get_schema_info(warehouse, company_name)
    /\ pc' = "discovered"
    /\ UNCHANGED <<body, question, company_name, conn, content, sql, cursor,
                   result, response, caught, failure>>

GetSchemaInfoFails ==
    /\ pc = "cursor"
    /\ trace' = Append(trace, "get_schema_info")
    /\ \E e \in CollaboratorErrors : Raise("get_schema_info", e)
    /\ UNCHANGED <<body, question, company_name, conn, schema, content, sql,
                   cursor, result>>

\* lines 586-593
GenerateSql ==
    /\ pc = "discovered"
    /\ trace' = Append(trace, "generate_sql")
    /\ \E text \in RawSqlTexts :
        /\ content' = text
        /\ sql' = CleanSql(text)
    /\ IF SqlIsEmpty(sql')
       THEN /\ response' = CouldNotAnswerResponse
            /\ pc' = "responded"
       ELSE /\ response' = response
            /\ pc' = "generated"
    /\ UNCHANGED <<body, question, company_name, conn, schema, cursor,
                   result, caught, failure>>

\* a handler that swallows the failure and calls generate_sql again
GenerateSqlRetries ==
    /\ pc = "discovered"
    /\ trace' = Append(trace, "generate_sql")
    /\ UNCHANGED <<pc, body, question, company_name, conn, schema, content,
                   sql, cursor, result, response, caught, failure>>

GenerateSqlFails ==
    /\ pc = "discovered"
    /\ trace' = Append(trace, "generate_sql")
    /\ \E e \in CollaboratorErrors : Raise("generate_sql", e)
    /\ UNCHANGED <<body, question, company_name, conn, schema, content, sql,
                   cursor, result>>

\* lines 595-600; generate_sql's local `response` is gone by now
ExecuteSql ==
    /\ pc = "generated"
    /\ trace' = Append(trace, "execute_sql")
    /\ content' = <<>>
    /\ \E columns \in Descriptors :
        \E rows \in RowsFor(columns) :
            /\ cursor' = [description |-> columns, rows |-> rows]
            /\ result' = execute_sql(columns, rows)
    /\ IF ResultIsEmpty(result')
       THEN /\ response' = NoDataResponse
            /\ pc' = "responded"
       ELSE /\ response' = response
            /\ pc' = "executed"
    /\ UNCHANGED <<body, question, company_name, conn, schema, sql, caught,
                   failure>>

ExecuteSqlFails ==
    /\ pc = "generated"
    /\ trace' = Append(trace, "execute_sql")
    /\ content' = <<>>
    /\ \E e \in CollaboratorErrors : Raise("execute_sql", e)
    /\ UNCHANGED <<body, question, company_name, conn, schema, sql, cursor,
                   result>>

\* lines 602-604
GenerateHumanAnswer ==
    /\ pc = "executed"
    /\ trace' = Append(trace, "generate_human_answer")
    /\ \E text \in RawAnswerTexts :
        /\ content' = text
        /\ response' = AnswerResponse(strip(text), sql, result)
    /\ pc' = "responded"
    /\ UNCHANGED <<body, question, company_name, conn, schema, sql, cursor,
                   result, caught, failure>>

GenerateHumanAnswerFails ==
    /\ pc = "executed"
    /\ trace' = Append(trace, "generate_human_answer")
    /\ \E e \in CollaboratorErrors : Raise("generate_human_answer", e)
    /\ UNCHANGED <<body, question, company_name, conn, schema, content, sql,
                   cursor, result>>

\* The handler has returned and its locals go out of scope.  No statement
\* closes conn or cursor: whether the connection is finalized now is up to
\* the interpreter's garbage collector.
EndRequest ==
    /\ pc = "responded"
    /\ pc' = "ended"
    /\ conn' \in (IF conn = "open" THEN {"open", "closed"} ELSE {conn})
    /\ UNCHANGED <<body, question, company_name, schema, content, sql,
                   cursor, result, response, trace, caught, failure>>

Next ==
    \/ GetJsonFails
    \/ DataGetFails
    \/ RejectRequest
    \/ AcceptRequest
    \/ Connect
    \/ ConnectFails
    \/ OpenCursor
    \/ OpenCursorFails
    \/ GetSchemaInfo
    \/ GetSchemaInfoFails
    \/ GenerateSql
    \/ GenerateSqlFails
    \/ ExecuteSql
    \/ ExecuteSqlFails
    \/ GenerateHumanAnswer
    \/ GenerateHumanAnswerFails
    \/ EndRequest

Spec == Init /\ [][Next]_vars

TypeOK ==
    /\ pc \in {"start", "validated", "connected", "cursor", "discovered",
               "generated", "executed", "responded", "ended", "escaped"}
    /\ conn \in {"none", "open", "closed"}
    /\ caught \in 0..1

(***************************************************************************)
(* Properties                                                              *)
(***************************************************************************)
Responded == pc \in {"responded", "ended"}

Called(step) == step \in Range(trace)

Calls(step) == Cardinality({i \in DOMAIN trace : trace[i] = step})

IsPrefix(s, t) == Len(s) <= Len(t) /\ SubSeq(t, 1, Len(s)) = s

PipelineOrder ==
    <<"get_db_connection", "cursor", "get_schema_info", "generate_sql",
      "execute_sql", "generate_human_answer">>

PipelineSteps == Range(PipelineOrder)

\* a field that is missing (None) or carries no character
MissingOrEmpty(v) == v = NoneVal \/ Len(v) = 0

\* the request lacks a usable question or company_name
LacksField(b) ==
    \/ b.kind \in {"absent", "malformed"}
    \/ b.kind = "json" /\ b.value.type # "object"
    \/ b.kind = "json" /\ b.value.type = "object"
        /\ (MissingOrEmpty(b.value.question)
            \/ MissingOrEmpty(b.value.company_name))

\* C1: every request that lacks 'question' or 'company_name' -- body
\* absent, not JSON, or JSON that is not an object included -- is answered
\* 400 with exactly the two-field message, and nothing downstream was called.
C1_MissingFieldIs400 ==
    (Responded /\ LacksField(body)) =>
        /\ response.status = 400
        /\ response.body = [error |-> RequiredMessage]
        /\ trace = <<>>

\* C2: once get_db_connection has returned, the connection is closed by the
\* time the request has ended, on every path.
C2_ConnectionReleased ==
    (pc = "ended" /\ conn # "none") => conn = "closed"

\* generate_sql returned the empty string
SqlReturnedEmpty ==
    Called("generate_sql") /\ failure = NoFailure /\ sql = <<>>

\* C3 (as stated): when generate_sql returns "", execute_sql and
\* generate_human_answer are never invoked and the body is exactly the
\* message written with the ASCII apostrophe U+0027.
C3_EmptySqlAsciiMessage ==
    SqlReturnedEmpty =>
        /\ ~Called("execute_sql")
        /\ ~Called("generate_human_answer")
        /\ Responded =>
            /\ response.status = 200
            /\ response.body =
                [answer |-> <<"I couldn", "'",
                    "t find enough data to answer that question.">>]

\* C3 (amended): when generate_sql returns "", execute_sql and
\* generate_human_answer are never invoked and the body is exactly the
\* message written with the typographic apostrophe U+2019.
C3_EmptySqlShortCircuit ==
    SqlReturnedEmpty =>
        /\ ~Called("execute_sql")
        /\ ~Called("generate_human_answer")
        /\ Responded =>
            /\ response.status = 200
            /\ response.body =
                [answer |-> <<"I couldn", "U+2019",
                    "t find enough data to answer that question.">>]

C3_Witness ==
    /\ pc = "responded"
    /\ SqlReturnedEmpty
    /\ content = Fence \o <<" ">> \o Fence
    /\ response.status = 200

\* C4: when execute_sql classifies the result as empty the answer model
\* call is never made and the body is exactly the no-data message; the
\* answer model call is made only for a scalar or tabular result.
C4_EmptyResultShortCircuit ==
    /\ result.type = "empty" =>
        /\ ~Called("generate_human_answer")
        /\ Responded =>
            /\ response.status = 200
            /\ response.body =
                [answer |-> <<"No data was found for this question.">>]
    /\ Called("generate_human_answer") => result.type \in {"scalar", "table"}

C4_Witness ==
    /\ pc = "responded"
    /\ result.type = "empty"
    /\ Len(cursor.description) = 2
    /\ cursor.rows = <<>>
    /\ response.status = 200

\* C5: zero rows classify as empty; one column and one row as scalar with
\* that cell; every other shape as tabular, with the descriptor's column
\* names in order and, per row in row order, a mapping from each column
\* name to that row's value for that column.
C5_Classification ==
    result.type # "none" =>
        LET columns == cursor.description
            rows == cursor.rows
        IN  IF Len(rows) = 0
            THEN result.type = "empty"
            ELSE IF Len(columns) = 1 /\ Len(rows) = 1
                 THEN result.type = "scalar" /\ result.data = rows[1][1]
                 ELSE /\ result.type = "table"
                      /\ result.columns = columns
                      /\ Len(result.data) = Len(rows)
                      /\ \A r \in 1..Len(rows) : \A i \in 1..Len(columns) :
                            /\ columns[i] \in DOMAIN result.data[r]
                            /\ result.data[r][columns[i]] = rows[r][i]

\* C6: after validation, a failure of any step is caught exactly once, no
\* later step is invoked, nothing escapes the handler, and the response is
\* 500 with the one field 'error' holding the failure's text.
C6_SingleFaultBoundary ==
    /\ pc # "escaped"
    /\ failure.step \in PipelineSteps =>
        /\ Responded
        /\ caught = 1
        /\ trace[Len(trace)] = failure.step
        /\ response.status = 500
        /\ DOMAIN response.body = {"error"}
        /\ response.body.error = failure.error

C6_Witness ==
    /\ pc = "responded"
    /\ failure.step = "execute_sql"
    /\ conn = "open"
    /\ response.status = 500

\* C7: every key of the catalog is '<schema>.<view>' with <schema> the
\* requested company_name and <view> beginning with the literal 'vw_'.
C7_SchemaScoping ==
    \A k \in DOMAIN schema :
        \E n \in 0..Len(k) :
            /\ k = company_name \o <<".">> \o SubSeq(k, Len(k) - n + 1, Len(k))
            /\ StartsWith(SubSeq(k, Len(k) - n + 1, Len(k)), <<"v", "w", "_">>)

\* t is raw without its leading and trailing whitespace
IsTrimOf(t, raw) ==
    /\ t = <<>> \/ (t[1] \notin Whitespace /\ t[Len(t)] \notin Whitespace)
    /\ \E i \in 0..Len(raw) : \E j \in i..Len(raw) :
        /\ t = SubSeq(raw, i + 1, j)
        /\ \A k \in (1..i) \cup ((j + 1)..Len(raw)) : raw[k] \in Whitespace

\* C8: a valid request with non-empty SQL and a non-empty result, no step
\* failing, is answered 200 with exactly one field, 'answer', holding the
\* trimmed text of the answer model call; no sql, result or row data.
C8_AnswerOnly ==
    (/\ Responded
     /\ failure = NoFailure
     /\ Called("generate_sql")
     /\ sql # <<>>
     /\ result.type \in {"scalar", "table"}) =>
        /\ response.status = 200
        /\ DOMAIN response.body = {"answer"}
        /\ IsTrimOf(response.body.answer, content)

C8_Witness ==
    /\ pc = "responded"
    /\ failure = NoFailure
    /\ result.type = "table"
    /\ content = <<" ", "a">>
    /\ response.body = [answer |-> <<"a">>]

\* C9: the steps of a request are invoked in the order schema discovery,
\* SQL generation, SQL execution, answer generation, each at most once, at
\* most two model invocations, and none again after a failure.
C9_SequentialOnce ==
    /\ IsPrefix(trace, PipelineOrder)
    /\ \A step \in PipelineSteps : Calls(step) <= 1
    /\ Calls("generate_sql") + Calls("generate_human_answer") <= 2
    /\ failure # NoFailure => (Responded /\ Calls(failure.step) <= 1)

C9_Witness ==
    /\ pc = "responded"
    /\ trace = PipelineOrder
    /\ failure = NoFailure

\* the text with every fence marker, its language tag sql/SQL if any, and
\* every remaining backtick removed
RECURSIVE WithoutMarkup(_)
WithoutMarkup(s) ==
    IF s = <<>> THEN <<>>
    ELSE IF StartsWith(s, Fence \o <<"s", "q", "l">>)
            \/ StartsWith(s, Fence \o <<"S", "Q", "L">>)
         THEN WithoutMarkup(SubSeq(s, 7, Len(s)))
         ELSE IF Head(s) = BT
              THEN WithoutMarkup(Tail(s))
              ELSE <<Head(s)>> \o WithoutMarkup(Tail(s))

\* C10: generate_sql returns the model's text with every fence marker
\* (with or without a language tag sql/SQL) and every backtick removed and
\* then trimmed: no backtick, no surrounding whitespace, no leftover tag.
C10_Sanitized ==
    (pc = "generated" \/ (pc = "responded" /\ SqlReturnedEmpty)) =>
        /\ BT \notin Range(sql)
        /\ sql = <<>> \/ (sql[1] \notin Whitespace
                          /\ sql[Len(sql)] \notin Whitespace)
        /\ IsTrimOf(sql, WithoutMarkup(content))

====
